---- MODULE Spec2Model ----
(***************************************************************************)
(* Model of gortsplib's serverUDPListener (server_udp_listener.go): the    *)
(* clientAddr key, the clients registry guarded by a sync.RWMutex, the     *)
(* run() receive loop and close().                                         *)
(***************************************************************************)
EXTENDS Integers, Sequences, FiniteSets, TLC

None == "none"

(***************************************************************************)
(* Bounds of the model.                                                    *)
(***************************************************************************)
\* udpMaxPayloadSize of the package, scaled down: run() reads into a buffer
\* of udpMaxPayloadSize+1 bytes.
udpMaxPayloadSize == 2

\* The most network interfaces net.Interfaces() returns.
MaxIntfs == 3

\* time.Now() is in 0..MaxNow; u.writeTimeout, in the same unit.
MaxNow == 1
writeTimeout == 1
Times == 0..MaxNow

(***************************************************************************)
(* Input sets.                                                             *)
(***************************************************************************)
IPv4len == 4
IPv6len == 16

v4InV6Prefix == <<0, 0, 0, 0, 0, 0, 0, 0, 0, 0, 255, 255>>

\* net.IP values: 4-byte IPv4, the 16-byte IPv4-mapped form, 16-byte IPv6.
LocalV4 == <<127, 0, 0, 1>>
LocalV4Mapped == v4InV6Prefix \o LocalV4
LocalV6 == <<0, 0, 0, 0, 0, 0, 0, 0, 0, 0, 0, 0, 0, 0, 0, 1>>

\* u.listenIP and the local address of u.pc.
ListenAddr == [ip |-> LocalV4, port |-> 8000]

\* The peer addresses of the model: one host in both representations and a
\* second port of that host.
Peers ==
    {[ip |-> LocalV4, port |-> 5000], [ip |-> LocalV4Mapped, port |-> 5000],
     [ip |-> LocalV4, port |-> 5001]}
Handlers == {"H1", "H2"}
\* The goroutines of the server that call addClient / removeClient.
Callers == {"c1", "c2"}

\* Arguments of fill in KeySpec: IPv4 addresses, their
\* IPv4-mapped forms, and IPv6 addresses that share bytes with them.
KeyV4s == {<<0, 0, 0, 0>>, LocalV4, <<127, 0, 0, 2>>}
KeyV6s ==
    {[i \in 1..IPv6len |-> 0], LocalV6,
     LocalV4 \o <<0, 0, 0, 0, 0, 0, 0, 0, 0, 0, 0, 0>>,
     <<0, 0, 0, 0, 0, 0, 0, 0, 0, 0, 255, 254>> \o LocalV4}
KeyIPs == KeyV4s \cup {v4InV6Prefix \o a : a \in KeyV4s} \cup KeyV6s
KeyPorts == {0, 5000, 65535}
\* Two clientAddr variables, to compare.
Slots == {"a", "b"}

\* What net.Interfaces() can return: up to MaxIntfs interfaces, each with or
\* without net.FlagMulticast (mc) and with a JoinGroup that succeeds or not.
Intf == [mc : BOOLEAN, ok : BOOLEAN]
IntfLists == UNION {[1..n -> Intf] : n \in 0..MaxIntfs}

\* The bytes of a datagram of the given size (distinct, non-zero per offset).
Payload(size) == [i \in 1..size |-> 64 + i]
DatagramSizes == 0..(udpMaxPayloadSize + 2)

(***************************************************************************)
(* clientAddr and fill.                                                    *)
(***************************************************************************)
\* Go's copy(dst[off:], src): min(len(dst)-off, len(src)) elements.
Copy(dst, off, src) ==
    [i \in 1..Len(dst) |->
        IF i > off /\ i - off <= Len(src) THEN src[i - off] ELSE dst[i]]

\* var addr clientAddr: the zero value.
ZeroClientAddr == [ip |-> [i \in 1..IPv6len |-> 0], port |-> 0]

\* Faulty variant of fill: the IPv4 bytes are copied without the v4InV6Prefix.
fill_NoPrefix(p, ip, port) ==
    [p EXCEPT !.port = port, !.ip = Copy(p.ip, 0, ip)]

\* Faulty variant of fill: the port is not stored.
fill_NoPort(p, ip, port) ==
    IF Len(ip) = IPv4len
    THEN [p EXCEPT !.ip = Copy(Copy(p.ip, 0, v4InV6Prefix), 12, ip)]
    ELSE [p EXCEPT !.ip = Copy(p.ip, 0, ip)]

fill(p, ip, port) ==
    LET q == [p EXCEPT !.port = port]
    IN  IF Len(ip) = IPv4len
        THEN [q EXCEPT !.ip = Copy(Copy(q.ip, 0, v4InV6Prefix), 12, ip)]
        ELSE [q EXCEPT !.ip = Copy(q.ip, 0, ip)]

(***************************************************************************)
(* State.                                                                  *)
(***************************************************************************)
VARIABLES
    pc,            \* u.pc: "open" or "closed"
    clients,       \* u.clients: map[clientAddr]readFunc
    clientsMutex,  \* u.clientsMutex: sync.RWMutex
    done,          \* u.done: TRUE once the channel is closed
    run,           \* the run() goroutine: position and locals
    inflight,      \* readFunc invocations in progress
    callers,       \* goroutines calling addClient / removeClient (old is
                   \* history: the binding the mutation found for the key)
    closeAt,       \* the goroutine calling close()
    dgram,         \* history: the datagram the last read returned
    calls,         \* history: readFunc invocations since the last read
    lastOp,        \* history: the registry as the mutations in order leave it
    fillArgs,      \* per clientAddr variable under test: the arguments of fill
    fillAddr,      \* per clientAddr variable under test: the struct after fill
    lst,           \* construction: per listener, newServerUDPListener's
                   \* position, its socket, its run() goroutine
    pair,          \* construction: the call that constructs
    join,          \* construction: joinMulticastGroupOnAtLeastOneInterface
    user,          \* the goroutine calling write(), ip() or port()
    wdeadline      \* the write deadline of u.pc: {} or {t}

keyVars == <<fillArgs, fillAddr>>

setupVars == <<lst, pair, join>>

writeVars == <<user, wdeadline>>

\* What the listener's own operations (run, addClient, removeClient, close)
\* do not touch.
otherVars == <<keyVars, setupVars, writeVars>>

listenerVars == <<pc, clients, clientsMutex, done, run, inflight, callers,
                  closeAt, dgram, calls, lastOp>>

vars == <<pc, clients, clientsMutex, done, run, inflight, callers, closeAt,
          dgram, calls, lastOp, fillArgs, fillAddr, lst, pair, join, user,
          wdeadline>>

\* Faulty variant of BufLen: a buffer one byte longer.
BufLen_TooLong == udpMaxPayloadSize + 2

\* make([]byte, udpMaxPayloadSize+1)
BufLen == udpMaxPayloadSize + 1

NewBuf == [i \in 1..BufLen |-> 0]

\* The zero values of the locals of run() and of a caller.
NoAddr == [ip |-> <<>>, port |-> 0]

NoDgram == [from |-> NoAddr, size |-> 0]

IdleRun == [at |-> "read", buf |-> <<>>, n |-> 0,
            addr |-> NoAddr, clientAddr |-> ZeroClientAddr, cb |-> None]

IdleCaller == [op |-> None, at |-> "idle", addr |-> ZeroClientAddr,
               cb |-> None, old |-> None]

\* make(map[clientAddr]readFunc)
EmptyMap == [k \in {} |-> None]

\* The two listeners of newServerUDPListenerMulticastPair; a single call of
\* newServerUDPListener constructs the first.
Listeners == {"rtpl", "rtcpl"}

\* No call of newServerUDPListener yet: no socket, no struct, no goroutine.
NoListener == [at |-> "idle", multicast |-> FALSE, pc |-> "none",
               made |-> FALSE, clients |-> EmptyMap, loop |-> "none",
               done |-> FALSE, err |-> None, log |-> <<>>]

NoPair == [fn |-> None, at |-> "idle", err |-> None, ret |-> {}]

NoJoin == [at |-> "idle", for |-> None, intfs |-> <<>>, i |-> 0,
           success |-> FALSE, tried |-> {}, joined |-> {}, err |-> None]

\* What write, ip and port return: an error, an address, a port number.
NoRet == [err |-> None, ip |-> <<>>, port |-> 0]

\* The goroutine that calls write, ip and port is in no call.  Of write:
\* now is time.Now(), deadline the argument of SetWriteDeadline, dlerr that
\* SetWriteDeadline failed (write drops its result), err the result of
\* WriteTo, sends (history) the calls of WriteTo; ret is what the call
\* returned.
IdleUser == [fn |-> None, at |-> "idle", now |-> 0, deadline |-> {},
             dlerr |-> FALSE, sends |-> 0, err |-> None, ret |-> NoRet]

Init ==
    /\ pc = "open"
    /\ clients = EmptyMap
    /\ clientsMutex = [w |-> {}, readers |-> 0, waiting |-> 0]
    /\ done = FALSE
    /\ run = IdleRun
    /\ inflight = {}
    /\ callers = [c \in Callers |-> IdleCaller]
    /\ closeAt = "idle"
    /\ dgram = NoDgram
    /\ calls = 0
    /\ lastOp = EmptyMap
    /\ fillArgs = [i \in Slots |-> NoAddr]
    /\ fillAddr = [i \in Slots |-> ZeroClientAddr]
    /\ lst = [l \in Listeners |-> NoListener]
    /\ pair = NoPair
    /\ join = NoJoin
    /\ user = IdleUser
    /\ wdeadline = {}

(***************************************************************************)
(* sync.RWMutex: w holds the writer that has rw.w (pending or active: it  *)
(* keeps new readers out), readers the read locks held, waiting the        *)
(* readers blocked behind that writer, admitted together by its Unlock.    *)
(***************************************************************************)
RLockFree(m) == m.w = {}

RLock(m) ==
    IF RLockFree(m)
    THEN [m EXCEPT !.readers = @ + 1]
    ELSE [m EXCEPT !.waiting = @ + 1]

RUnlock(m) == [m EXCEPT !.readers = @ - 1]

Unlock(m) == [m EXCEPT !.w = {}, !.readers = m.waiting, !.waiting = 0]

(***************************************************************************)
(* run(): the receive loop.                                                *)
(***************************************************************************)
\* Faulty variant of Slice: the handler gets the whole buffer.
Slice_WholeBuf(buf, n) == buf

\* buf[:n]
Slice(buf, n) == SubSeq(buf, 1, n)

\* cb, ok := u.clients[clientAddr]
Lookup(m, k) ==
    IF k \in DOMAIN m THEN [cb |-> m[k], ok |-> TRUE]
    ELSE [cb |-> None, ok |-> FALSE]

\* Faulty variant of RunRead: an empty datagram is taken for the end of the
\* stream and ends the loop.
RunRead_ExitOnEmpty ==
    /\ run.at = "read"
    /\ pc = "open"
    /\ \E from \in Peers, size \in DatagramSizes :
        LET buf == NewBuf
            n == IF size < Len(buf) THEN size ELSE Len(buf)
        IN  /\ run' = [at |-> IF n = 0 THEN "defer" ELSE "rlock",
                       buf |-> Copy(buf, 0, Payload(size)),
                       n |-> n, addr |-> from,
                       clientAddr |-> ZeroClientAddr, cb |-> None]
            /\ dgram' = [from |-> from, size |-> size]
    /\ calls' = 0
    /\ UNCHANGED <<pc, clients, clientsMutex, done, inflight, callers,
                   closeAt, lastOp, otherVars>>

\* n, addr, err := u.pc.ReadFromUDP(buf), err == nil: a datagram of any size
\* from any sender; the socket copies at most len(buf) bytes of it.
RunRead ==
    /\ run.at = "read"
    /\ pc = "open"
    /\ \E from \in Peers, size \in DatagramSizes :
        LET buf == NewBuf
            n == IF size < Len(buf) THEN size ELSE Len(buf)
        IN  /\ run' = [at |-> "rlock", buf |-> Copy(buf, 0, Payload(size)),
                       n |-> n, addr |-> from,
                       clientAddr |-> ZeroClientAddr, cb |-> None]
            /\ dgram' = [from |-> from, size |-> size]
    /\ calls' = 0
    /\ UNCHANGED <<pc, clients, clientsMutex, done, inflight, callers,
                   closeAt, lastOp, otherVars>>

\* ReadFromUDP fails because the socket is closed: break.
RunReadClosed ==
    /\ run.at = "read"
    /\ pc = "closed"
    /\ run' = [IdleRun EXCEPT !.at = "defer"]
    /\ UNCHANGED <<pc, clients, clientsMutex, done, inflight, callers,
                   closeAt, dgram, calls, lastOp, otherVars>>

\* ReadFromUDP fails on an open socket (an error of the OS): break.
RunReadError ==
    /\ run.at = "read"
    /\ pc = "open"
    /\ run' = [IdleRun EXCEPT !.at = "defer"]
    /\ UNCHANGED <<pc, clients, clientsMutex, done, inflight, callers,
                   closeAt, dgram, calls, lastOp, otherVars>>

\* Faulty variant of RunExit: run() returns without closing u.done.
RunExit_NoSignal ==
    /\ run.at = "defer"
    /\ run' = [run EXCEPT !.at = "exited"]
    /\ UNCHANGED <<pc, clients, clientsMutex, done, inflight, callers,
                   closeAt, dgram, calls, lastOp, otherVars>>

\* defer close(u.done)
RunExit ==
    /\ run.at = "defer"
    /\ done' = TRUE
    /\ run' = [run EXCEPT !.at = "exited"]
    /\ UNCHANGED <<pc, clients, clientsMutex, inflight, callers, closeAt,
                   dgram, calls, lastOp, otherVars>>

\* u.clientsMutex.RLock()
RunRLock ==
    /\ run.at = "rlock"
    /\ clientsMutex' = RLock(clientsMutex)
    /\ run' = [run EXCEPT !.at = IF RLockFree(clientsMutex) THEN "lookup"
                                 ELSE "rlock_blocked"]
    /\ UNCHANGED <<pc, clients, done, inflight, callers, closeAt, dgram,
                   calls, lastOp, otherVars>>

\* Faulty variant of RunMiss: a datagram of an unknown sender ends the loop.
RunMiss_Break ==
    /\ run.at = "lookup"
    /\ LET ca == fill(ZeroClientAddr, run.addr.ip, run.addr.port)
       IN  /\ ~Lookup(clients, ca).ok
           /\ run' = [IdleRun EXCEPT !.at = "defer"]
    /\ clientsMutex' = RUnlock(clientsMutex)
    /\ UNCHANGED <<pc, clients, done, inflight, callers, closeAt, dgram,
                   calls, lastOp, otherVars>>

\* clientAddr.fill(addr.IP, addr.Port); cb, ok := u.clients[clientAddr];
\* if !ok { return }
RunMiss ==
    /\ run.at = "lookup"
    /\ LET ca == fill(ZeroClientAddr, run.addr.ip, run.addr.port)
       IN  /\ ~Lookup(clients, ca).ok
           /\ run' = [run EXCEPT !.clientAddr = ca, !.at = "runlock"]
    /\ UNCHANGED <<pc, clients, clientsMutex, done, inflight, callers,
                   closeAt, dgram, calls, lastOp, otherVars>>

\* Faulty variant of RunHit: the read lock is released before cb(buf[:n]).
RunHit_Decoupled ==
    /\ run.at = "lookup"
    /\ LET ca == fill(ZeroClientAddr, run.addr.ip, run.addr.port)
           r == Lookup(clients, ca)
       IN  /\ r.ok
           /\ run' = [run EXCEPT !.clientAddr = ca, !.cb = r.cb, !.at = "cb"]
           /\ inflight' = inflight \cup
                            {[cb |-> r.cb, arg |-> Slice(run.buf, run.n)]}
    /\ clientsMutex' = RUnlock(clientsMutex)
    /\ calls' = calls + 1
    /\ UNCHANGED <<pc, clients, done, callers, closeAt, dgram, lastOp,
                   otherVars>>

\* Faulty variant of RunHit: go cb(buf[:n]), run() does not wait for it.
RunHit_NoWait ==
    /\ run.at = "lookup"
    /\ LET ca == fill(ZeroClientAddr, run.addr.ip, run.addr.port)
           r == Lookup(clients, ca)
       IN  /\ r.ok
           /\ run' = [run EXCEPT !.clientAddr = ca, !.cb = r.cb,
                                 !.at = "runlock"]
           /\ inflight' = inflight \cup
                            {[cb |-> r.cb, arg |-> Slice(run.buf, run.n)]}
    /\ calls' = calls + 1
    /\ UNCHANGED <<pc, clients, clientsMutex, done, callers, closeAt, dgram,
                   lastOp, otherVars>>

\* ... cb(buf[:n]): the handler starts, run() waits for it to return.
RunHit ==
    /\ run.at = "lookup"
    /\ LET ca == fill(ZeroClientAddr, run.addr.ip, run.addr.port)
           r == Lookup(clients, ca)
       IN  /\ r.ok
           /\ run' = [run EXCEPT !.clientAddr = ca, !.cb = r.cb, !.at = "cb"]
           /\ inflight' = inflight \cup
                            {[cb |-> r.cb, arg |-> Slice(run.buf, run.n)]}
    /\ calls' = calls + 1
    /\ UNCHANGED <<pc, clients, clientsMutex, done, callers, closeAt, dgram,
                   lastOp, otherVars>>

\* The handler returns; run() goes on to the deferred RUnlock.
HandlerReturn ==
    /\ \E h \in inflight : inflight' = inflight \ {h}
    /\ run' = IF run.at = "cb" THEN [run EXCEPT !.at = "runlock"] ELSE run
    /\ UNCHANGED <<pc, clients, clientsMutex, done, callers, closeAt, dgram,
                   calls, lastOp, otherVars>>

\* defer u.clientsMutex.RUnlock(); next iteration of the loop
RunRUnlock ==
    /\ run.at = "runlock"
    /\ clientsMutex' = RUnlock(clientsMutex)
    /\ run' = IdleRun
    /\ dgram' = NoDgram
    /\ calls' = 0
    /\ UNCHANGED <<pc, clients, done, inflight, callers, closeAt, lastOp,
                   otherVars>>

(***************************************************************************)
(* addClient / removeClient.                                               *)
(***************************************************************************)
\* Faulty variant of Store: the store leaves no other key bound.
Store_DropOthers(m, k, cb) == [x \in {k} |-> cb]

\* Faulty variant of Store: a key that is bound keeps its handler.
Store_KeepFirst(m, k, cb) ==
    [x \in DOMAIN m \cup {k} |-> IF x \in DOMAIN m THEN m[x] ELSE cb]

\* u.clients[addr] = cb
Store(m, k, cb) == [x \in DOMAIN m \cup {k} |-> IF x = k THEN cb ELSE m[x]]

\* Faulty variant of Delete: the key is looked up without its port.
Delete_WrongKey(m, k) ==
    [x \in DOMAIN m \ {[k EXCEPT !.port = 0]} |-> m[x]]

\* delete(u.clients, addr)
Delete(m, k) == [x \in DOMAIN m \ {k} |-> m[x]]

\* addClient(ip, port, cb) is called: var addr clientAddr; addr.fill(ip, port)
AddClientCall(c) ==
    /\ callers[c].at = "idle"
    /\ \E peer \in Peers, cb \in Handlers :
        callers' = [callers EXCEPT ![c] =
                        [op |-> "addClient", at |-> "lock",
                         addr |-> fill(ZeroClientAddr, peer.ip, peer.port),
                         cb |-> cb, old |-> None]]
    /\ UNCHANGED <<pc, clients, clientsMutex, done, run, inflight, closeAt,
                   dgram, calls, lastOp, otherVars>>

\* removeClient(ip, port) is called: var addr clientAddr; addr.fill(ip, port)
RemoveClientCall(c) ==
    /\ callers[c].at = "idle"
    /\ \E peer \in Peers :
        callers' = [callers EXCEPT ![c] =
                        [op |-> "removeClient", at |-> "lock",
                         addr |-> fill(ZeroClientAddr, peer.ip, peer.port),
                         cb |-> None, old |-> None]]
    /\ UNCHANGED <<pc, clients, clientsMutex, done, run, inflight, closeAt,
                   dgram, calls, lastOp, otherVars>>

\* Faulty variant of CallerLock: Lock() does not wait for the readers.
CallerLock_NoWait(c) ==
    /\ callers[c].at = "lock"
    /\ clientsMutex.w = {}
    /\ clientsMutex' = [clientsMutex EXCEPT !.w = {c}]
    /\ callers' = [callers EXCEPT ![c].at = "locked"]
    /\ UNCHANGED <<pc, clients, done, run, inflight, closeAt, dgram, calls,
                   lastOp, otherVars>>

\* u.clientsMutex.Lock(): take rw.w, then wait for the readers to leave.
CallerLock(c) ==
    /\ callers[c].at = "lock"
    /\ clientsMutex.w = {}
    /\ clientsMutex' = [clientsMutex EXCEPT !.w = {c}]
    /\ callers' = [callers EXCEPT ![c].at =
                      IF clientsMutex.readers = 0 THEN "locked"
                      ELSE "lock_blocked"]
    /\ UNCHANGED <<pc, clients, done, run, inflight, closeAt, dgram, calls,
                   lastOp, otherVars>>

\* Lock() returns once the last reader has left.
CallerLockResume(c) ==
    /\ callers[c].at = "lock_blocked"
    /\ clientsMutex.readers = 0
    /\ callers' = [callers EXCEPT ![c].at = "locked"]
    /\ UNCHANGED <<pc, clients, clientsMutex, done, run, inflight, closeAt,
                   dgram, calls, lastOp, otherVars>>

\* u.clients[addr] = cb
AddClientStore(c) ==
    /\ callers[c].at = "locked"
    /\ callers[c].op = "addClient"
    /\ clients' = Store(clients, callers[c].addr, callers[c].cb)
    /\ lastOp' = [x \in DOMAIN lastOp \cup {callers[c].addr} |->
                    IF x = callers[c].addr THEN callers[c].cb ELSE lastOp[x]]
    /\ callers' = [callers EXCEPT
                      ![c].at = "unlock",
                      ![c].old = Lookup(clients, callers[c].addr).cb]
    /\ UNCHANGED <<pc, clientsMutex, done, run, inflight, closeAt, dgram,
                   calls, otherVars>>

\* delete(u.clients, addr)
RemoveClientDelete(c) ==
    /\ callers[c].at = "locked"
    /\ callers[c].op = "removeClient"
    /\ clients' = Delete(clients, callers[c].addr)
    /\ lastOp' = [x \in DOMAIN lastOp \ {callers[c].addr} |-> lastOp[x]]
    /\ callers' = [callers EXCEPT
                      ![c].at = "unlock",
                      ![c].old = Lookup(clients, callers[c].addr).cb]
    /\ UNCHANGED <<pc, clientsMutex, done, run, inflight, closeAt, dgram,
                   calls, otherVars>>

\* defer u.clientsMutex.Unlock(): the readers blocked behind the writer get
\* the read lock; the call returns.
CallerUnlock(c) ==
    /\ callers[c].at = "unlock"
    /\ clientsMutex' = Unlock(clientsMutex)
    /\ run' = IF run.at = "rlock_blocked" THEN [run EXCEPT !.at = "lookup"]
              ELSE run
    /\ callers' = [callers EXCEPT ![c] = IdleCaller]
    /\ UNCHANGED <<pc, clients, done, inflight, closeAt, dgram, calls,
                   lastOp, otherVars>>

(***************************************************************************)
(* close().                                                                *)
(***************************************************************************)
\* u.pc.Close()
CloseSocket ==
    /\ closeAt = "idle"
    /\ pc' = "closed"
    /\ closeAt' = "wait"
    /\ UNCHANGED <<clients, clientsMutex, done, run, inflight, callers,
                   dgram, calls, lastOp, otherVars>>

\* Faulty variant of CloseWait: close() returns without receiving from u.done.
CloseWait_NoWait ==
    /\ closeAt = "wait"
    /\ closeAt' = "returned"
    /\ UNCHANGED <<pc, clients, clientsMutex, done, run, inflight, callers,
                   dgram, calls, lastOp, otherVars>>

\* <-u.done
CloseWait ==
    /\ closeAt = "wait"
    /\ done
    /\ closeAt' = "returned"
    /\ UNCHANGED <<pc, clients, clientsMutex, done, run, inflight, callers,
                   dgram, calls, lastOp, otherVars>>

(***************************************************************************)
(* The listener.                                                           *)
(***************************************************************************)
RunStep ==
    \/ RunRead
    \/ RunReadClosed
    \/ RunReadError
    \/ RunExit
    \/ RunRLock
    \/ RunMiss
    \/ RunHit
    \/ HandlerReturn
    \/ RunRUnlock

CallerStep(c) ==
    \/ AddClientCall(c)
    \/ RemoveClientCall(c)
    \/ CallerLock(c)
    \/ CallerLockResume(c)
    \/ AddClientStore(c)
    \/ RemoveClientDelete(c)
    \/ CallerUnlock(c)

CloseStep ==
    \/ CloseSocket
    \/ CloseWait

Next ==
    \/ RunStep
    \/ \E c \in Callers : CallerStep(c)
    \/ CloseStep

Spec == Init /\ [][Next]_vars

(***************************************************************************)
(* Scheduling: the Go scheduler runs every goroutine that can take a step; *)
(* ReadFromUDP on a closed socket returns; a handler that was invoked      *)
(* returns.  Arrivals of datagrams, OS read errors and new calls of        *)
(* addClient, removeClient and close are left to the environment.          *)
(***************************************************************************)
Fairness ==
    /\ WF_vars(RunReadClosed)
    /\ WF_vars(RunExit)
    /\ WF_vars(RunRLock)
    /\ WF_vars(RunMiss)
    /\ WF_vars(RunHit)
    /\ WF_vars(HandlerReturn)
    /\ WF_vars(RunRUnlock)
    /\ WF_vars(CloseWait)
    /\ \A c \in Callers :
        WF_vars(CallerLockResume(c) \/ AddClientStore(c)
                    \/ RemoveClientDelete(c) \/ CallerUnlock(c))

LiveSpec == Spec /\ Fairness

(***************************************************************************)
(* clientAddr alone: fill applied to a fresh struct, for every argument.   *)
(***************************************************************************)
\* var addr clientAddr; addr.fill(ip, port)
FillCall(i) ==
    /\ \E ip \in KeyIPs, port \in KeyPorts :
        /\ fillArgs' = [fillArgs EXCEPT ![i] = [ip |-> ip, port |-> port]]
        /\ fillAddr' = [fillAddr EXCEPT ![i] = fill(ZeroClientAddr, ip, port)]
    /\ UNCHANGED <<listenerVars, setupVars, writeVars>>

KeyNext == \E i \in Slots : FillCall(i)

KeySpec == Init /\ [][KeyNext]_vars

(***************************************************************************)
(* write, ip and port, called by a goroutine of the server while run(),    *)
(* addClient, removeClient and close go on.                                *)
(***************************************************************************)
\* write(buf, addr) is called.
WriteCall ==
    /\ user.at = "idle"
    /\ user' = [IdleUser EXCEPT !.fn = "write", !.at = "deadline"]
    /\ UNCHANGED <<listenerVars, keyVars, setupVars, wdeadline>>

\* u.pc.SetWriteDeadline(time.Now().Add(u.writeTimeout)): fails on a closed
\* socket, and its result is dropped.
WriteSetDeadline ==
    /\ user.at = "deadline"
    /\ \E now \in Times :
        /\ user' = [user EXCEPT !.at = "send", !.now = now,
                                !.deadline = {now + writeTimeout},
                                !.dlerr = (pc = "closed")]
        /\ wdeadline' = IF pc = "open" THEN {now + writeTimeout}
                        ELSE wdeadline
    /\ UNCHANGED <<listenerVars, keyVars, setupVars>>

\* The outcomes of WriteTo: sent, the deadline passed, another error of the
\* network; on a closed socket, the error of a closed socket.
WriteOutcomes == IF pc = "open" THEN {"nil", "timeout", "error"}
                 ELSE {"closed"}

\* Faulty variant of WriteSend: a failed WriteTo is made again, once.
WriteSend_Retry ==
    /\ user.at = "send"
    /\ \E out \in WriteOutcomes :
        user' = [user EXCEPT
                   !.at = IF out # "nil" /\ user.sends = 0 THEN "send"
                          ELSE "return",
                   !.sends = @ + 1, !.err = out]
    /\ UNCHANGED <<listenerVars, keyVars, setupVars, wdeadline>>

\* _, err := u.pc.WriteTo(buf, addr)
WriteSend ==
    /\ user.at = "send"
    /\ \E out \in WriteOutcomes :
        user' = [user EXCEPT !.at = "return", !.sends = @ + 1, !.err = out]
    /\ UNCHANGED <<listenerVars, keyVars, setupVars, wdeadline>>

\* return err
WriteReturn ==
    /\ user.at = "return"
    /\ user' = [IdleUser EXCEPT !.fn = "write", !.ret.err = user.err]
    /\ UNCHANGED <<listenerVars, keyVars, setupVars, wdeadline>>

\* ip(): return u.listenIP
IpCall ==
    /\ user.at = "idle"
    /\ user' = [IdleUser EXCEPT !.fn = "ip", !.ret.ip = ListenAddr.ip]
    /\ UNCHANGED <<listenerVars, keyVars, setupVars, wdeadline>>

\* port(): return u.pc.LocalAddr().(*net.UDPAddr).Port
PortCall ==
    /\ user.at = "idle"
    /\ user' = [IdleUser EXCEPT !.fn = "port", !.ret.port = ListenAddr.port]
    /\ UNCHANGED <<listenerVars, keyVars, setupVars, wdeadline>>

UserStep ==
    \/ WriteCall
    \/ WriteSetDeadline
    \/ WriteSend
    \/ WriteReturn
    \/ IpCall
    \/ PortCall

\* One goroutine registers and unregisters, one writes and asks the address.
WriteNext ==
    \/ RunStep
    \/ CallerStep("c1")
    \/ CloseStep
    \/ UserStep

WriteSpec == Init /\ [][WriteNext]_vars

(***************************************************************************)
(* A handler that calls addClient or removeClient of its own listener: the *)
(* call is made by the goroutine of run(), inside cb(buf[:n]), and the     *)
(* handler returns only after that call has returned.                      *)
(***************************************************************************)
\* The goroutines that call addClient / removeClient: one of the server and
\* the goroutine of run(), from inside a handler.
ReentCallers == {"c1", "run"}

ReentInit ==
    /\ pc = "open"
    /\ clients = EmptyMap
    /\ clientsMutex = [w |-> {}, readers |-> 0, waiting |-> 0]
    /\ done = FALSE
    /\ run = IdleRun
    /\ inflight = {}
    /\ callers = [c \in ReentCallers |-> IdleCaller]
    /\ closeAt = "idle"
    /\ dgram = NoDgram
    /\ calls = 0
    /\ lastOp = EmptyMap
    /\ fillArgs = [i \in Slots |-> NoAddr]
    /\ fillAddr = [i \in Slots |-> ZeroClientAddr]
    /\ lst = [l \in Listeners |-> NoListener]
    /\ pair = NoPair
    /\ join = NoJoin
    /\ user = IdleUser
    /\ wdeadline = {}

\* Inside cb(buf[:n]): u.addClient(...) or u.removeClient(...) is called.
HandlerCall ==
    /\ run.at = "cb"
    /\ inflight # {}
    /\ AddClientCall("run") \/ RemoveClientCall("run")

\* The handler returns, which it does not do inside a call it has made.
ReentHandlerReturn ==
    /\ callers["run"].at = "idle"
    /\ HandlerReturn

ReentNext ==
    \/ RunRead
    \/ RunReadClosed
    \/ RunReadError
    \/ RunExit
    \/ RunRLock
    \/ RunMiss
    \/ RunHit
    \/ ReentHandlerReturn
    \/ RunRUnlock
    \/ HandlerCall
    \/ AddClientCall("c1")
    \/ RemoveClientCall("c1")
    \/ \E c \in ReentCallers :
        \/ CallerLock(c)
        \/ CallerLockResume(c)
        \/ AddClientStore(c)
        \/ RemoveClientDelete(c)
        \/ CallerUnlock(c)
    \/ CloseStep

ReentSpec == ReentInit /\ [][ReentNext]_vars

(***************************************************************************)
(* Construction: newServerUDPListener, its multicast join, and             *)
(* newServerUDPListenerMulticastPair.  Each step of the constructor can    *)
(* fail.  A constructed listener runs run(); before the constructor        *)
(* returns nobody holds the listener, so its registry is empty and run()   *)
(* is given here by its reads alone.                                       *)
(***************************************************************************)
\* A step of the constructor succeeded: go on at `next`.
Pass(r, step, next) ==
    [r EXCEPT !.at = next, !.log = Append(@, [step |-> step, ok |-> TRUE])]

\* if err != nil { return nil, err }
Fail(r, step) ==
    [r EXCEPT !.at = "err", !.err = step,
              !.log = Append(@, [step |-> step, ok |-> FALSE])]

\* newServerUDPListener(listenPacket, writeTimeout, multicast, address)
Called(multicast) ==
    [NoListener EXCEPT !.multicast = multicast,
                       !.at = IF multicast THEN "split" ELSE "listen"]

\* A caller constructs one listener or the multicast pair.
Call ==
    /\ pair.at = "idle"
    /\ \/ /\ pair' = [pair EXCEPT !.fn = "pair", !.at = "rtpl"]
          /\ lst' = [lst EXCEPT !["rtpl"] = Called(TRUE)]
       \/ \E multicast \in BOOLEAN :
          /\ pair' = [pair EXCEPT !.fn = "single", !.at = "rtpl"]
          /\ lst' = [lst EXCEPT !["rtpl"] = Called(multicast)]
    /\ UNCHANGED <<listenerVars, keyVars, writeVars, join>>

\* host, port, err := net.SplitHostPort(address): the pair's addresses come
\* from net.JoinHostPort and always split.
ConsSplit(l) ==
    /\ lst[l].at = "split"
    /\ \/ lst' = [lst EXCEPT ![l] = Pass(@, "SplitHostPort", "listen")]
       \/ /\ pair.fn = "single"
          /\ lst' = [lst EXCEPT ![l] = Fail(@, "SplitHostPort")]
    /\ UNCHANGED <<listenerVars, keyVars, writeVars, pair, join>>

\* tmp, err := listenPacket(...)
ConsListen(l) ==
    /\ lst[l].at = "listen"
    /\ \/ lst' = [lst EXCEPT ![l] =
                    [Pass(@, "listenPacket",
                          IF @.multicast THEN "ttl" ELSE "buf")
                        EXCEPT !.pc = "open"]]
       \/ lst' = [lst EXCEPT ![l] = Fail(@, "listenPacket")]
    /\ UNCHANGED <<listenerVars, keyVars, writeVars, pair, join>>

\* err = p.SetMulticastTTL(multicastTTL)
ConsTTL(l) ==
    /\ lst[l].at = "ttl"
    /\ \/ lst' = [lst EXCEPT ![l] = Pass(@, "SetMulticastTTL", "join")]
       \/ lst' = [lst EXCEPT ![l] = Fail(@, "SetMulticastTTL")]
    /\ UNCHANGED <<listenerVars, keyVars, writeVars, pair, join>>

\* err = joinMulticastGroupOnAtLeastOneInterface(p, listenIP) is called:
\* intfs, err := net.Interfaces(); if err != nil { return err }
ConsJoin(l) ==
    /\ lst[l].at = "join"
    /\ lst' = [lst EXCEPT ![l].at = "joining"]
    /\ \/ \E intfs \in IntfLists :
            join' = [NoJoin EXCEPT !.at = "loop", !.for = l,
                                   !.intfs = intfs, !.i = 1]
       \/ join' = [NoJoin EXCEPT !.at = "ret", !.for = l,
                                 !.err = "Interfaces"]
    /\ UNCHANGED <<listenerVars, keyVars, writeVars, pair>>

\* Faulty variant of JoinIter: the first JoinGroup that fails ends the loop.
JoinIter_StopOnError ==
    /\ join.at = "loop"
    /\ join.i <= Len(join.intfs)
    /\ LET intf == join.intfs[join.i]
       IN  join' = [join EXCEPT
                !.i = IF intf.mc /\ ~intf.ok THEN Len(join.intfs) + 1
                      ELSE @ + 1,
                !.tried = IF intf.mc THEN @ \cup {join.i} ELSE @,
                !.joined = IF intf.mc /\ intf.ok THEN @ \cup {join.i} ELSE @,
                !.success = IF intf.mc /\ intf.ok THEN TRUE ELSE @]
    /\ UNCHANGED <<listenerVars, keyVars, writeVars, pair, lst>>

\* for _, intf := range intfs { if flagged { err := p.JoinGroup(...);
\* if err == nil { success = true } } }
JoinIter ==
    /\ join.at = "loop"
    /\ join.i <= Len(join.intfs)
    /\ LET intf == join.intfs[join.i]
       IN  join' = [join EXCEPT
                !.i = @ + 1,
                !.tried = IF intf.mc THEN @ \cup {join.i} ELSE @,
                !.joined = IF intf.mc /\ intf.ok THEN @ \cup {join.i} ELSE @,
                !.success = IF intf.mc /\ intf.ok THEN TRUE ELSE @]
    /\ UNCHANGED <<listenerVars, keyVars, writeVars, pair, lst>>

\* if !success { return fmt.Errorf(...) }; return nil
JoinEnd ==
    /\ join.at = "loop"
    /\ join.i > Len(join.intfs)
    /\ join' = [join EXCEPT !.at = "ret",
                            !.err = IF join.success THEN None
                                    ELSE "NoMulticastInterface"]
    /\ UNCHANGED <<listenerVars, keyVars, writeVars, pair, lst>>

\* if err != nil { return nil, err }; pc = tmp.(*net.UDPConn)
ConsJoinRet(l) ==
    /\ lst[l].at = "joining"
    /\ join.at = "ret"
    /\ join.for = l
    /\ lst' = [lst EXCEPT ![l] =
                 IF join.err = None
                 THEN Pass(@, "joinMulticastGroupOnAtLeastOneInterface",
                           "buf")
                 ELSE Fail(@, "joinMulticastGroupOnAtLeastOneInterface")]
    /\ join' = NoJoin
    /\ UNCHANGED <<listenerVars, keyVars, writeVars, pair>>

\* Faulty variant of ConsBuf: the error of SetReadBuffer is dropped.
ConsBuf_IgnoreError(l) ==
    /\ lst[l].at = "buf"
    /\ \/ lst' = [lst EXCEPT ![l] = Pass(@, "SetReadBuffer", "make")]
       \/ lst' = [lst EXCEPT ![l] =
                    [Fail(@, "SetReadBuffer") EXCEPT !.at = "make"]]
    /\ UNCHANGED <<listenerVars, keyVars, writeVars, pair, join>>

\* err := pc.SetReadBuffer(udpKernelReadBufferSize)
ConsBuf(l) ==
    /\ lst[l].at = "buf"
    /\ \/ lst' = [lst EXCEPT ![l] = Pass(@, "SetReadBuffer", "make")]
       \/ lst' = [lst EXCEPT ![l] = Fail(@, "SetReadBuffer")]
    /\ UNCHANGED <<listenerVars, keyVars, writeVars, pair, join>>

\* u := &serverUDPListener{...}; go u.run(); return u, nil
ConsMake(l) ==
    /\ lst[l].at = "make"
    /\ lst' = [lst EXCEPT ![l].at = "ok", ![l].made = TRUE,
                          ![l].clients = EmptyMap, ![l].done = FALSE,
                          ![l].loop = "read"]
    /\ UNCHANGED <<listenerVars, keyVars, writeVars, pair, join>>

\* run() of a constructed listener: ReadFromUDP fails, the socket is closed.
LoopReadClosed(l) ==
    /\ lst[l].loop = "read"
    /\ lst[l].pc = "closed"
    /\ lst' = [lst EXCEPT ![l].loop = "defer"]
    /\ UNCHANGED <<listenerVars, keyVars, writeVars, pair, join>>

\* run() of a constructed listener: ReadFromUDP fails on the open socket.
LoopReadError(l) ==
    /\ lst[l].loop = "read"
    /\ lst[l].pc = "open"
    /\ lst' = [lst EXCEPT ![l].loop = "defer"]
    /\ UNCHANGED <<listenerVars, keyVars, writeVars, pair, join>>

\* run() of a constructed listener: defer close(u.done)
LoopExit(l) ==
    /\ lst[l].loop = "defer"
    /\ lst' = [lst EXCEPT ![l].loop = "exited", ![l].done = TRUE]
    /\ UNCHANGED <<listenerVars, keyVars, writeVars, pair, join>>

\* newServerUDPListener alone returns to its caller.
SingleReturn ==
    /\ pair.fn = "single"
    /\ pair.at = "rtpl"
    /\ lst["rtpl"].at \in {"ok", "err"}
    /\ pair' = [pair EXCEPT
                  !.at = "ret", !.err = lst["rtpl"].err,
                  !.ret = IF lst["rtpl"].at = "ok" THEN {"rtpl"} ELSE {}]
    /\ UNCHANGED <<listenerVars, keyVars, writeVars, lst, join>>

\* rtpl, err := newServerUDPListener(...); if err != nil { return nil, nil,
\* err }; rtcpl, err := newServerUDPListener(...) is called
PairRtpl ==
    /\ pair.fn = "pair"
    /\ pair.at = "rtpl"
    /\ lst["rtpl"].at \in {"ok", "err"}
    /\ IF lst["rtpl"].at = "err"
       THEN /\ pair' = [pair EXCEPT !.at = "ret", !.err = lst["rtpl"].err]
            /\ lst' = lst
       ELSE /\ pair' = [pair EXCEPT !.at = "rtcpl"]
            /\ lst' = [lst EXCEPT !["rtcpl"] = Called(TRUE)]
    /\ UNCHANGED <<listenerVars, keyVars, writeVars, join>>

\* if err != nil { rtpl.close() ... }; return rtpl, rtcpl, nil
PairRtcpl ==
    /\ pair.fn = "pair"
    /\ pair.at = "rtcpl"
    /\ lst["rtcpl"].at \in {"ok", "err"}
    /\ pair' = IF lst["rtcpl"].at = "err"
               THEN [pair EXCEPT !.at = "close"]
               ELSE [pair EXCEPT !.at = "ret", !.ret = {"rtpl", "rtcpl"}]
    /\ UNCHANGED <<listenerVars, keyVars, writeVars, lst, join>>

\* rtpl.close(): u.pc.Close()
PairCloseSocket ==
    /\ pair.at = "close"
    /\ lst' = [lst EXCEPT !["rtpl"].pc = "closed"]
    /\ pair' = [pair EXCEPT !.at = "wait"]
    /\ UNCHANGED <<listenerVars, keyVars, writeVars, join>>

\* rtpl.close(): <-u.done; return nil, nil, err
PairCloseWait ==
    /\ pair.at = "wait"
    /\ lst["rtpl"].done
    /\ pair' = [pair EXCEPT !.at = "ret", !.err = lst["rtcpl"].err]
    /\ UNCHANGED <<listenerVars, keyVars, writeVars, lst, join>>

ConsStep(l) ==
    \/ ConsSplit(l)
    \/ ConsListen(l)
    \/ ConsTTL(l)
    \/ ConsJoin(l)
    \/ ConsJoinRet(l)
    \/ ConsBuf(l)
    \/ ConsMake(l)
    \/ LoopReadClosed(l)
    \/ LoopReadError(l)
    \/ LoopExit(l)

SetupNext ==
    \/ Call
    \/ \E l \in Listeners : ConsStep(l)
    \/ JoinIter
    \/ JoinEnd
    \/ SingleReturn
    \/ PairRtpl
    \/ PairRtcpl
    \/ PairCloseSocket
    \/ PairCloseWait

SetupSpec == Init /\ [][SetupNext]_vars

(***************************************************************************)
(* Properties.                                                             *)
(***************************************************************************)
\* net.IP.To16 of a 4- or 16-byte address.
To16(ip) == IF Len(ip) = IPv4len THEN v4InV6Prefix \o ip ELSE ip

\* The peer an address names: its 16-byte form and its port.
KeyOf(addr) == [ip |-> To16(addr.ip), port |-> addr.port]

\* The bytes ReadFromUDP returns of a datagram: at most the buffer's length.
Received(d) ==
    SubSeq(Payload(d.size), 1, IF d.size < BufLen THEN d.size ELSE BufLen)

\* C1: once close() has returned, run() has exited (u.done is closed), it
\* holds no read lock on the registry and no handler invocation is in
\* progress, whatever addClient / removeClient calls and datagram arrivals
\* were interleaved with close().
C1_ClosedMeansLoopExited ==
    closeAt = "returned" =>
        /\ run.at = "exited"
        /\ done
        /\ inflight = {}
        /\ clientsMutex.readers = 0
        /\ clientsMutex.waiting = 0

C1_Witness ==
    /\ closeAt = "returned"
    /\ DOMAIN clients # {}
    /\ \E c \in Callers : callers[c].at = "unlock"

\* C2: under the scheduling assumptions of LiveSpec (handlers return, the
\* goroutines that can step do), a close() that has closed the socket
\* eventually returns, with the loop exited and u.done closed.
C2_CloseReturns ==
    (closeAt = "wait") ~> (closeAt = "returned" /\ done /\ run.at = "exited")

C2_Witness ==
    /\ closeAt = "returned"
    /\ pc = "closed"
    /\ done
    /\ run.at = "exited"

\* C3: a handler invocation is always the one of the handler bound to the
\* key of the sender of the datagram just read, with exactly the bytes read
\* of that datagram; a datagram whose sender is bound gets exactly one
\* invocation, and none before the lookup.
C3_DispatchExact ==
    /\ \A h \in inflight :
        /\ KeyOf(dgram.from) \in DOMAIN clients
        /\ h.cb = clients[KeyOf(dgram.from)]
        /\ h.arg = Received(dgram)
    /\ run.at = "cb" => calls = 1 /\ Cardinality(inflight) = 1
    /\ run.at = "runlock" =>
        calls = IF KeyOf(dgram.from) \in DOMAIN clients THEN 1 ELSE 0
    /\ run.at \in {"rlock", "rlock_blocked", "lookup"} => calls = 0

C3_Witness ==
    /\ run.at = "cb"
    /\ dgram.from.ip = LocalV4Mapped
    /\ dgram.size = 1
    /\ Cardinality(DOMAIN clients) = 2
    /\ \E k \in DOMAIN clients : clients[k] # run.cb
    /\ inflight = {[cb |-> run.cb, arg |-> <<65>>]}

\* C4: the lookup of a sender without a handler changes nothing but the
\* position of run(): no invocation, the registry as it was, u.done still
\* open; and after its RUnlock run() is back at the read.
C4_UnregisteredDiscarded ==
    /\ [](run.at = "runlock" /\ run.cb = None =>
            calls = 0 /\ inflight = {} /\ ~done)
    /\ [][(run.at = "lookup" /\ KeyOf(run.addr) \notin DOMAIN clients
             /\ run' # run)
            => /\ run'.at = "runlock"
               /\ run'.cb = None
               /\ clients' = clients
               /\ inflight' = inflight
               /\ calls' = calls
               /\ done' = done]_vars
    /\ [][(run.at = "runlock" /\ run' # run) => run'.at = "read"]_vars

C4_Witness ==
    /\ run.at = "runlock"
    /\ run.cb = None
    /\ DOMAIN clients # {}
    /\ KeyOf(dgram.from) \notin DOMAIN clients

\* C5: fill gives a 4-byte IPv4 address and its 16-byte IPv4-mapped form,
\* with the same port, the same clientAddr.
C5_MappedFormSameKey ==
    \A i, j \in Slots :
        (/\ Len(fillArgs[i].ip) = IPv4len
         /\ fillArgs[j].ip = v4InV6Prefix \o fillArgs[i].ip
         /\ fillArgs[j].port = fillArgs[i].port)
        => fillAddr[i] = fillAddr[j]

C5_Witness ==
    /\ fillArgs["a"] = [ip |-> LocalV4, port |-> 5000]
    /\ fillArgs["b"] = [ip |-> LocalV4Mapped, port |-> 5000]
    /\ fillAddr["a"] = fillAddr["b"]

\* C6: two filled clientAddr structs are equal exactly when the arguments
\* name the same peer, that is when their 16-byte addresses and their ports
\* are equal: different peers get different keys.
C6_KeysEqualIffSamePeer ==
    \A i, j \in Slots :
        (fillArgs[i] # NoAddr /\ fillArgs[j] # NoAddr) =>
            (fillAddr[i] = fillAddr[j]
                <=> KeyOf(fillArgs[i]) = KeyOf(fillArgs[j]))

C6_Witness ==
    /\ fillArgs["a"] = [ip |-> LocalV4, port |-> 5000]
    /\ fillArgs["b"] = [ip |-> LocalV4, port |-> 65535]
    /\ fillAddr["a"] # fillAddr["b"]

\* C7: the registry is what the mutations, in the order they took the lock,
\* leave when every add replaces the binding of its key and every remove
\* drops it; a handler that runs is the last one added for the sender's key.
C7_LastWriteWins ==
    /\ clients = lastOp
    /\ \A h \in inflight :
        /\ KeyOf(dgram.from) \in DOMAIN lastOp
        /\ h.cb = lastOp[KeyOf(dgram.from)]
    /\ \A c \in Callers :
        (callers[c].op = "addClient" /\ callers[c].at = "unlock") =>
            /\ callers[c].addr \in DOMAIN clients
            /\ clients[callers[c].addr] = callers[c].cb

C7_Witness ==
    \E c \in Callers :
        /\ callers[c].op = "addClient"
        /\ callers[c].at = "unlock"
        /\ callers[c].old = "H1"
        /\ callers[c].cb = "H2"
        /\ clients[callers[c].addr] = "H2"

\* C8: the delete of removeClient leaves the registry without the key, and
\* leaves the registry as it was when the key was not bound.
C8_RemoveIdempotent ==
    [][\A c \in Callers :
        (/\ callers[c].op = "removeClient"
         /\ callers[c].at = "locked"
         /\ callers'[c].at = "unlock")
        => /\ callers[c].addr \notin DOMAIN clients'
           /\ \A k \in DOMAIN clients \ {callers[c].addr} :
                k \in DOMAIN clients' /\ clients'[k] = clients[k]
           /\ callers[c].addr \notin DOMAIN clients => clients' = clients]_vars

C8_Witness ==
    \E c \in Callers :
        /\ callers[c].op = "removeClient"
        /\ callers[c].at = "unlock"
        /\ callers[c].old = None
        /\ DOMAIN clients # {}

\* C9: at most one handler invocation is in progress, run() waits in it,
\* it is the invocation for the datagram read last, and run() is at no
\* read, lock or lookup while a handler runs.
C9_Serialized ==
    /\ Cardinality(inflight) <= 1
    /\ inflight # {} <=> run.at = "cb"
    /\ \A h \in inflight : h = [cb |-> run.cb, arg |-> Received(dgram)]

C9_Witness ==
    /\ Cardinality(inflight) = 1
    /\ run.at = "cb"
    /\ dgram.from.port = 5001
    /\ pc = "closed"

\* C10, as stated: every payload a handler gets is at most udpMaxPayloadSize
\* bytes long.
C10_PayloadAtMostMax ==
    \A h \in inflight : Len(h.arg) <= udpMaxPayloadSize

\* C10, amended: every payload a handler gets is at most udpMaxPayloadSize+1
\* bytes long, the length of the read buffer, and is that long for every
\* datagram of more than udpMaxPayloadSize bytes.
C10_PayloadAtMostBuffer ==
    \A h \in inflight :
        /\ Len(h.arg) <= udpMaxPayloadSize + 1
        /\ dgram.size > udpMaxPayloadSize =>
            Len(h.arg) = udpMaxPayloadSize + 1
        /\ dgram.size <= udpMaxPayloadSize => Len(h.arg) = dgram.size

C10_Witness ==
    \E h \in inflight :
        /\ dgram.size = udpMaxPayloadSize + 2
        /\ Len(h.arg) = udpMaxPayloadSize + 1

\* The interfaces of the running join that carry net.FlagMulticast.
McIntfs == {i \in 1..Len(join.intfs) : join.intfs[i].mc}

\* C11: the join is attempted on every interface flagged multicast-capable
\* and on no other, a failed attempt does not stop the later ones, and the
\* join returns nil exactly when at least one attempt succeeded; with no
\* capable interface, or none that joins, it returns an error.
C11_JoinAtLeastOne ==
    /\ join.tried = {i \in McIntfs : i < join.i}
    /\ join.joined = {i \in join.tried : join.intfs[i].ok}
    /\ join.success <=> join.joined # {}
    /\ join.at = "ret" => (join.err = None <=> join.joined # {})
    /\ join.at = "ret" /\ join.err # "Interfaces" =>
        /\ join.tried = McIntfs
        /\ join.err = None <=> \E i \in McIntfs : join.intfs[i].ok

C11_Witness ==
    /\ join.at = "ret"
    /\ join.err = None
    /\ join.intfs = <<[mc |-> TRUE, ok |-> FALSE], [mc |-> FALSE, ok |-> TRUE],
                      [mc |-> TRUE, ok |-> TRUE]>>

\* C12, as stated: when the pair fails because the RTCP listener cannot be
\* constructed, the RTP listener is closed and its loop has exited, no
\* listener is returned, and no socket opened during the call is still open.
C12_PairFailureLeavesNoSocket ==
    pair.fn = "pair" /\ pair.at = "ret" /\ lst["rtcpl"].at = "err" =>
        /\ lst["rtpl"].pc = "closed"
        /\ lst["rtpl"].loop = "exited"
        /\ pair.ret = {}
        /\ pair.err # None
        /\ \A l \in Listeners : lst[l].pc # "open"

\* The steps newServerUDPListener takes before it starts run(), in order.
SetupSteps(multicast) ==
    IF multicast
    THEN <<"SplitHostPort", "listenPacket", "SetMulticastTTL",
           "joinMulticastGroupOnAtLeastOneInterface", "SetReadBuffer">>
    ELSE <<"listenPacket", "SetReadBuffer">>

IsPrefix(s, t) == Len(s) <= Len(t) /\ SubSeq(t, 1, Len(s)) = s

\* C13: a setup step that fails ends the construction: the error is
\* returned, no step is taken again or after it, no listener is returned and
\* run() is not started; run() is started only after every setup step has
\* succeeded, and then with an empty registry.
C13_SetupFailureFatal ==
    /\ \A l \in Listeners :
        LET r == lst[l]
            steps == [i \in 1..Len(r.log) |-> r.log[i].step]
        IN  /\ IsPrefix(steps, SetupSteps(r.multicast))
            /\ \A i \in 1..Len(r.log) :
                 ~r.log[i].ok => i = Len(r.log) /\ r.at = "err"
            /\ r.at = "err" =>
                 /\ Len(r.log) > 0
                 /\ ~r.log[Len(r.log)].ok
                 /\ r.err = r.log[Len(r.log)].step
                 /\ ~r.made
                 /\ r.loop = "none"
                 /\ l \notin pair.ret
            /\ r.loop # "none" =>
                 /\ r.made
                 /\ steps = SetupSteps(r.multicast)
                 /\ \A i \in 1..Len(r.log) : r.log[i].ok
                 /\ r.clients = EmptyMap
            /\ l \in pair.ret => r.at = "ok"
    /\ pair.at = "ret" /\ (\E l \in Listeners : lst[l].at = "err") =>
        /\ pair.err # None
        /\ pair.ret = {}

C13_Witness ==
    /\ pair.fn = "single"
    /\ pair.at = "ret"
    /\ pair.err = "SetReadBuffer"
    /\ lst["rtpl"].multicast
    /\ lst["rtpl"].pc = "open"
    /\ lst["rtpl"].loop = "none"

\* C14: a write passes time.Now() + writeTimeout to SetWriteDeadline (which
\* sets it on the open socket), then calls WriteTo exactly once and returns
\* the error of that call; no step of write changes the registry, the
\* receive loop, the lock, the socket or the termination signal.
C14_WriteOnce ==
    /\ [](user.at \in {"send", "return"} =>
            /\ user.deadline = {user.now + writeTimeout}
            /\ ~user.dlerr => wdeadline = user.deadline
            /\ user.sends = IF user.at = "send" THEN 0 ELSE 1)
    /\ [][/\ user.at = "send" /\ user' # user =>
                user'.at = "return" /\ user'.sends = 1
          /\ user.at = "return" /\ user' # user =>
                user'.at = "idle" /\ user'.ret.err = user.err
          /\ user' # user \/ wdeadline' # wdeadline =>
                UNCHANGED <<pc, clients, clientsMutex, done, run, inflight,
                            callers, closeAt>>]_vars

C14_Witness ==
    /\ user.at = "return"
    /\ user.err = "timeout"
    /\ user.sends = 1
    /\ wdeadline = {MaxNow + writeTimeout}
    /\ run.at = "cb"
    /\ callers["c1"].at = "lock_blocked"

\* C20: the registry changes only in the store of an addClient and the
\* delete of a removeClient, and then only at the key of that call: every
\* other key keeps its binding; the steps of run(), of its handlers, of
\* write, ip, port and close leave the registry as it is.
C20_OnlyOwnKey ==
    [][/\ clients' # clients =>
            \E c \in Callers :
                LET k == callers[c].addr
                IN  /\ callers[c].at = "locked"
                    /\ callers'[c].at = "unlock"
                    /\ DOMAIN clients' \ {k} = DOMAIN clients \ {k}
                    /\ \A x \in DOMAIN clients \ {k} :
                            clients'[x] = clients[x]
                    /\ IF callers[c].op = "addClient"
                       THEN /\ k \in DOMAIN clients'
                            /\ clients'[k] = callers[c].cb
                       ELSE k \notin DOMAIN clients'
       /\ \/ run' # run
          \/ inflight' # inflight
          \/ user' # user
          \/ wdeadline' # wdeadline
          \/ closeAt' # closeAt
          => clients' = clients]_vars

C20_Witness ==
    /\ callers["c1"].at = "unlock"
    /\ callers["c1"].op = "removeClient"
    /\ callers["c1"].old # None
    /\ Cardinality(DOMAIN clients) = 1
    /\ user.fn = "port"

\* C15: u.done is closed once, in the step in which run() returns; run()
\* leaves its loop only from a ReadFromUDP that failed, never after a read
\* that returned a datagram; once u.done is closed there is no read, lookup
\* or handler invocation any more, whether or not close() was called.
C15_SignalOnlyOnReadError ==
    /\ [](done <=> run.at = "exited")
    /\ [](done => inflight = {} /\ clientsMutex.readers = 0)
    /\ [][/\ done' # done => ~done /\ done' /\ run.at = "defer"
          /\ run'.at = "defer" /\ run.at # "defer" =>
                run.at = "read" /\ dgram' = dgram /\ dgram = NoDgram
          /\ done => /\ run' = run
                     /\ inflight' = inflight
                     /\ dgram' = dgram
                     /\ calls' = calls
                     /\ clientsMutex'.readers = clientsMutex.readers]_vars

C15_Witness ==
    /\ done
    /\ run.at = "exited"
    /\ closeAt = "idle"
    /\ pc = "open"
    /\ DOMAIN clients # {}

\* The goroutines inside the critical section of addClient / removeClient.
Writers == {c \in Callers : callers[c].at \in {"locked", "unlock"}}

\* C16: at most one addClient / removeClient is inside its critical section,
\* and while it is, run() holds no read lock and is at no lookup.  (run() is
\* the only reader, so no two lookups exist that could overlap.)
C16_WritersExclusive ==
    /\ Cardinality(Writers) <= 1
    /\ Writers # {} =>
        /\ clientsMutex.w = Writers
        /\ clientsMutex.readers = 0
        /\ run.at \notin {"lookup", "cb", "runlock"}
    /\ run.at \in {"lookup", "cb", "runlock"} <=> clientsMutex.readers = 1

C16_Witness ==
    /\ callers["c1"].at = "unlock"
    /\ callers["c2"].at = "lock"
    /\ run.at = "rlock_blocked"

\* C17, as stated: the read lock is released before the handler is invoked:
\* while a handler runs run() holds no read lock and no addClient or
\* removeClient waits for one.
C17_LockReleasedBeforeInvoke ==
    inflight # {} =>
        /\ clientsMutex.readers = 0
        /\ \A c \in Callers : callers[c].at # "lock_blocked"

\* C17, amended: run() holds the read lock from the lookup until the handler
\* has returned: while a handler runs the read lock is held, no addClient or
\* removeClient is inside its critical section, and the registry does not
\* change.
C17_LockHeldDuringInvoke ==
    /\ [](inflight # {} =>
            /\ clientsMutex.readers = 1
            /\ Writers = {})
    /\ [][inflight # {} =>
            /\ clients' = clients
            /\ \A c \in Callers :
                 callers[c].at \in {"lock", "lock_blocked"} =>
                    callers'[c].at \in {"lock", "lock_blocked"}]_vars

C17_Witness ==
    /\ inflight # {}
    /\ callers["c1"].at = "lock_blocked"
    /\ callers["c2"].at = "lock"
    /\ clientsMutex.readers = 1

\* C18: a handler that is executing was invoked for a key that is still
\* bound to it; a removeClient that overlaps an invocation waits for it, so
\* when removeClient returns no handler is executing and its key is unbound;
\* a key becomes bound only by the store of an addClient for that key.
C18_RemovedHandlerNotRunning ==
    /\ [](inflight # {} =>
            /\ run.clientAddr \in DOMAIN clients
            /\ \A h \in inflight : h.cb = clients[run.clientAddr])
    /\ [][/\ \A c \in Callers :
                /\ callers[c].op = "removeClient"
                /\ callers[c].at = "unlock"
                /\ callers'[c].at = "idle"
                => /\ inflight = {}
                   /\ inflight' = {}
                   /\ callers[c].addr \notin DOMAIN clients'
          /\ inflight' # inflight /\ inflight' # {} =>
                \E k \in DOMAIN clients :
                    /\ k = KeyOf(run.addr)
                    /\ \A h \in inflight' : h.cb = clients[k]
          /\ \A k \in DOMAIN clients' \ DOMAIN clients :
                \E c \in Callers :
                    /\ callers[c].op = "addClient"
                    /\ callers[c].at = "locked"
                    /\ callers[c].addr = k]_vars

C18_Witness ==
    /\ callers["c1"].op = "removeClient"
    /\ callers["c1"].at = "lock_blocked"
    /\ run.at = "cb"
    /\ run.clientAddr = callers["c1"].addr
    /\ inflight # {}

\* C19: run() holds the read lock while the handler runs, so an addClient or
\* removeClient called by the handler on its own listener stays in Lock()
\* for ever: the handler does not return, run() stays in the invocation
\* with the read lock held, no datagram is read or dispatched, u.done is
\* not closed and close() does not return.
C19_ReentrantCallDeadlocks ==
    /\ [](callers["run"].at # "idle" =>
            /\ callers["run"].at \in {"lock", "lock_blocked"}
            /\ run.at = "cb"
            /\ inflight # {}
            /\ clientsMutex.readers = 1
            /\ ~done
            /\ closeAt # "returned")
    /\ [][callers["run"].at # "idle" =>
            /\ callers'["run"].at # "idle"
            /\ run' = run
            /\ inflight' = inflight
            /\ calls' = calls
            /\ dgram' = dgram
            /\ clients' = clients]_vars

C19_Witness ==
    /\ callers["run"].at = "lock_blocked"
    /\ callers["run"].op = "removeClient"
    /\ callers["c1"].at = "lock"
    /\ closeAt = "wait"
    /\ pc = "closed"

====
